---- MODULE Spec2Model ----
(***************************************************************************)
(* Model of src/venv/main.py: a FastAPI gateway with two handlers,         *)
(* get_weather (GET /api/weather) and post_chat (POST /api/chat), each     *)
(* forwarding one request to an upstream service and translating the       *)
(* outcome into the client response.                                       *)
(*                                                                         *)
(* Python values are tagged tuples: <<"NoneType">>, <<"str", s>>,          *)
(* <<"int", n>>, <<"float", digits>>, <<"list", seq>> and                  *)
(* <<"dict", seq of <<key, value>> >>.  Exceptions are tuples whose first  *)
(* element is the class name.  The result of running a block of code is    *)
(* <<"return", v>> or <<"raise", e>>.                                      *)
(***************************************************************************)
EXTENDS Integers, Sequences, FiniteSets, TLC

VARIABLES environ, task

vars == <<environ, task>>

(* Number of requests that can be in flight at the same time. *)
MaxTasks == 2

Tasks == 1..MaxTasks

-----------------------------------------------------------------------------
(* Python values *)

None == <<"NoneType">>
Str(s) == <<"str", s>>
PyInt(n) == <<"int", n>>
Float(digits) == <<"float", digits>>
List(items) == <<"list", items>>
Dict(pairs) == <<"dict", pairs>>

TypeOf(v) == v[1]

Return(v) == <<"return", v>>
Raise(e) == <<"raise", e>>
IsReturn(c) == c[1] = "return"
IsRaise(c) == c[1] = "raise"

(* bool(v) for the values an environment lookup can give *)
Truthy(v) ==
    CASE TypeOf(v) = "NoneType" -> FALSE
      [] TypeOf(v) = "str" -> v[2] # ""
      [] TypeOf(v) \in {"list", "dict"} -> Len(v[2]) > 0
      [] OTHER -> TRUE

(* sub occurs in s as a contiguous substring *)
IsSubstring(sub, s) ==
    \E i \in 1..(Len(s) - Len(sub) + 1) : SubSeq(s, i, i + Len(sub) - 1) = sub

HasKey(pairs, k) == \E i \in 1..Len(pairs) : pairs[i][1] = k

Lookup(pairs, k) == pairs[CHOOSE i \in 1..Len(pairs) : pairs[i][1] = k][2]

(* Python's  key in container ; key is a str *)
PyIn(key, container) ==
    CASE TypeOf(container) = "dict" -> Return(HasKey(container[2], key))
      [] TypeOf(container) = "list" ->
            Return(\E i \in 1..Len(container[2]) : container[2][i] = Str(key))
      [] TypeOf(container) = "str" -> Return(IsSubstring(key, container[2]))
      [] OTHER -> Raise(<<"TypeError", "argument of type is not iterable">>)

(* Python's  container[key] ; key is Str(..) or PyInt(..) *)
GetItem(container, key) ==
    CASE TypeOf(container) = "dict" ->
            IF TypeOf(key) = "str" /\ HasKey(container[2], key[2])
            THEN Return(Lookup(container[2], key[2]))
            ELSE Raise(<<"KeyError", "key">>)
      [] TypeOf(container) = "list" ->
            IF TypeOf(key) # "int"
            THEN Raise(<<"TypeError", "list indices must be integers or slices, not str">>)
            ELSE IF key[2] + 1 \in 1..Len(container[2])
                 THEN Return(container[2][key[2] + 1])
                 ELSE Raise(<<"IndexError", "list index out of range">>)
      [] TypeOf(container) = "str" ->
            IF TypeOf(key) # "int"
            THEN Raise(<<"TypeError", "string indices must be integers">>)
            ELSE IF key[2] + 1 \in 1..Len(container[2])
                 THEN Return(Str(SubSeq(container[2], key[2] + 1, key[2] + 1)))
                 ELSE Raise(<<"IndexError", "string index out of range">>)
      [] OTHER -> Raise(<<"TypeError", "object is not subscriptable">>)

(* container[path[1]][path[2]]... , stopping at the first exception *)
RECURSIVE GetPath(_, _)
GetPath(container, path) ==
    IF path = <<>> THEN Return(container)
    ELSE LET first == GetItem(container, Head(path))
         IN  IF IsRaise(first) THEN first ELSE GetPath(first[2], Tail(path))

(* str(e) of an exception *)
ExcStr(e) ==
    IF e[1] = "HTTPException"
    THEN ToString(e[2]) \o ": " \o e[3]
    ELSE e[2]

(* Every exception class that can occur here derives from Exception *)
ExceptionClasses ==
    {"HTTPException", "HTTPStatusError", "ConnectError", "ReadTimeout",
     "JSONDecodeError", "KeyError", "IndexError", "TypeError"}

IsException(e) == e[1] \in ExceptionClasses

-----------------------------------------------------------------------------
(* What the upstream services can send, and how httpx reads it *)

(* response.json(): the decoding of each body text the upstreams send here *)
json(text) ==
    CASE text = "{\"current_weather\": {\"temperature\": 52.1, \"windspeed\": 5.0}}" ->
            Return(Dict(<< <<"current_weather",
                Dict(<< <<"temperature", Float("52.1")>>, <<"windspeed", Float("5.0")>> >>)>> >>))
      [] text = "{\"latitude\": 47.6, \"current_weather\": {\"time\": \"2025-01-01T00:00\"}}" ->
            Return(Dict(<< <<"latitude", Float("47.6")>>,
                <<"current_weather", Dict(<< <<"time", Str("2025-01-01T00:00")>> >>)>> >>))
      [] text = "{\"current_weather\": null}" ->
            Return(Dict(<< <<"current_weather", None>> >>))
      [] text = "{}" -> Return(Dict(<<>>))
      [] text = "[\"current_weather\"]" -> Return(List(<<Str("current_weather")>>))
      [] text = "\"no current_weather today\"" -> Return(Str("no current_weather today"))
      [] text = "{\"candidates\": [{\"content\": {\"parts\": [{\"text\": \"hi there\"}]}}]}" ->
            Return(Dict(<< <<"candidates", List(<< Dict(<< <<"content",
                Dict(<< <<"parts", List(<< Dict(<< <<"text", Str("hi there")>> >>) >>)>> >>)>> >>) >>)>> >>))
      [] text = "{\"candidates\": [{\"content\": {\"parts\": [{\"text\": \"first\"}, {\"text\": \"second\"}]}}, {\"content\": {\"parts\": [{\"text\": \"other\"}]}}]}" ->
            Return(Dict(<< <<"candidates", List(<<
                Dict(<< <<"content", Dict(<< <<"parts", List(<<
                    Dict(<< <<"text", Str("first")>> >>),
                    Dict(<< <<"text", Str("second")>> >>) >>)>> >>)>> >>),
                Dict(<< <<"content", Dict(<< <<"parts", List(<<
                    Dict(<< <<"text", Str("other")>> >>) >>)>> >>)>> >>) >>)>> >>))
      [] text = "{\"candidates\": [{\"content\": {\"parts\": [{\"text\": null}]}}]}" ->
            Return(Dict(<< <<"candidates", List(<< Dict(<< <<"content",
                Dict(<< <<"parts", List(<< Dict(<< <<"text", None>> >>) >>)>> >>)>> >>) >>)>> >>))
      [] text = "{\"candidates\": []}" -> Return(Dict(<< <<"candidates", List(<<>>)>> >>))
      [] text = "{\"candidates\": \"abc\"}" -> Return(Dict(<< <<"candidates", Str("abc")>> >>))
      [] text = "{\"candidates\": [{\"finishReason\": \"SAFETY\"}]}" ->
            Return(Dict(<< <<"candidates", List(<<
                Dict(<< <<"finishReason", Str("SAFETY")>> >>) >>)>> >>))
      [] text = "{\"candidates\": [{\"content\": {\"parts\": [{\"inlineData\": \"x\"}]}}]}" ->
            Return(Dict(<< <<"candidates", List(<< Dict(<< <<"content",
                Dict(<< <<"parts", List(<< Dict(<< <<"inlineData", Str("x")>> >>) >>)>> >>)>> >>) >>)>> >>))
      [] OTHER -> Raise(<<"JSONDecodeError", "Expecting value: line 1 column 1 (char 0)">>)

(* An upstream HTTP response *)
Response(status_code, text) == <<"response", status_code, text>>
IsResponse(u) == u[1] = "response"

(* raise_for_status as if only 4xx and 5xx were errors *)
raise_for_status_4xx5xx(response) ==
    IF response[2] < 400
    THEN Return(response)
    ELSE Raise(<<"HTTPStatusError", response[2], response[3]>>)

(* response.raise_for_status(): HTTPStatusError unless the status is 2xx *)
raise_for_status(response) ==
    IF response[2] \in 200..299
    THEN Return(response)
    ELSE Raise(<<"HTTPStatusError", response[2], response[3]>>)

(* What  await client.get(..) / client.post(..)  can come back with when   *)
(* the transport fails.                                                    *)
TransportFailures ==
    { Raise(<<"ConnectError", "[Errno 111] Connection refused">>),
      Raise(<<"ReadTimeout", "The read operation timed out">>) }

WeatherResponses ==
    { Response(200, "{\"current_weather\": {\"temperature\": 52.1, \"windspeed\": 5.0}}"),
      Response(200, "{\"latitude\": 47.6, \"current_weather\": {\"time\": \"2025-01-01T00:00\"}}"),
      Response(200, "{\"current_weather\": null}"),
      Response(200, "{}"),
      Response(200, "[\"current_weather\"]"),
      Response(200, "\"no current_weather today\""),
      Response(200, "<html>gateway</html>"),
      Response(204, ""),
      Response(301, ""),
      Response(429, "rate limited"),
      Response(500, "{}") }

ChatResponses ==
    { Response(200, "{\"candidates\": [{\"content\": {\"parts\": [{\"text\": \"hi there\"}]}}]}"),
      Response(200, "{\"candidates\": [{\"content\": {\"parts\": [{\"text\": \"first\"}, {\"text\": \"second\"}]}}, {\"content\": {\"parts\": [{\"text\": \"other\"}]}}]}"),
      Response(200, "{\"candidates\": [{\"content\": {\"parts\": [{\"text\": null}]}}]}"),
      Response(200, "{\"candidates\": []}"),
      Response(200, "{\"candidates\": \"abc\"}"),
      Response(200, "{\"candidates\": [{\"finishReason\": \"SAFETY\"}]}"),
      Response(200, "{\"candidates\": [{\"content\": {\"parts\": [{\"inlineData\": \"x\"}]}}]}"),
      Response(200, "{}"),
      Response(200, "<html>gateway</html>"),
      Response(429, "rate limited") }

-----------------------------------------------------------------------------
(* The framework around the handlers *)

HTTPException(status_code, detail) == <<"HTTPException", status_code, detail>>

(* A client response: status code and JSON body *)
ClientResponse(status_code, body) == <<status_code, body>>
NoResponse == <<0, None>>

(* How FastAPI turns what a handler did into the client response: a        *)
(* returned value is a 200 with that value as body, an HTTPException is    *)
(* its status code with {"detail": detail}, anything else escapes.         *)
Respond(ctl) ==
    IF IsReturn(ctl) THEN ClientResponse(200, ctl[2])
    ELSE IF ctl[2][1] = "HTTPException"
         THEN ClientResponse(ctl[2][2], Dict(<< <<"detail", Str(ctl[2][3])>> >>))
         ELSE ClientResponse(500, Str("Internal Server Error"))

Unhandled(ctl) == IsRaise(ctl) /\ ctl[2][1] # "HTTPException"

(* float(raw) as the query-parameter validation does it *)
ParseFloat(raw) ==
    CASE raw = Str("47.6") -> Return(Float("47.6"))
      [] raw = Str("-122.3") -> Return(Float("-122.3"))
      [] raw = Str("10") -> Return(Float("10.0"))
      [] OTHER -> Raise(<<"ValueError", "could not convert to float">>)

(* The validation as if lon were optional *)
QueryErrors_latOnly(lat, lon) ==
    IF IsRaise(ParseFloat(lat)) THEN <<Str("lat")>> ELSE <<>>

(* lat: float = Query(...), lon: float = Query(...): both required *)
QueryErrors(lat, lon) ==
    (IF IsRaise(ParseFloat(lat)) THEN <<Str("lat")>> ELSE <<>>)
    \o (IF IsRaise(ParseFloat(lon)) THEN <<Str("lon")>> ELSE <<>>)

(* class ChatRequest(BaseModel): prompt: str *)
ChatRequestValid(body) ==
    /\ TypeOf(body) = "dict"
    /\ HasKey(body[2], "prompt")
    /\ TypeOf(Lookup(body[2], "prompt")) = "str"

ValidationError(fields) ==
    ClientResponse(422, Dict(<< <<"detail", List(fields)>> >>))

(* The lookup as if a credential once read were kept for later requests *)
os_environ_get_cached(name) ==
    IF \E u \in Tasks : Truthy(task[u].api_key)
    THEN task[CHOOSE u \in Tasks : Truthy(task[u].api_key)].api_key
    ELSE IF name \in DOMAIN environ THEN Str(environ[name]) ELSE None

(* os.environ.get(name) *)
os_environ_get(name) == IF name \in DOMAIN environ THEN Str(environ[name]) ELSE None

-----------------------------------------------------------------------------
(* get_weather *)

weather_api_url(lat, lon) ==
    "https://api.open-meteo.com/v1/forecast?latitude=" \o lat[2]
    \o "&longitude=" \o lon[2]
    \o "&current_weather=true&temperature_unit=fahrenheit"

(* The try block as if it returned the whole decoded body *)
get_weather_try_whole(upstream) ==
    IF IsRaise(upstream) THEN upstream
    ELSE IF IsRaise(raise_for_status(upstream)) THEN raise_for_status(upstream)
    ELSE IF IsRaise(json(upstream[3])) THEN json(upstream[3])
    ELSE IF IsRaise(PyIn("current_weather", json(upstream[3])[2]))
         THEN PyIn("current_weather", json(upstream[3])[2])
    ELSE IF PyIn("current_weather", json(upstream[3])[2])[2]
         THEN json(upstream[3])
         ELSE Raise(HTTPException(500, "Invalid data format from weather API."))

(* The try block of get_weather, resumed with what client.get came back with *)
get_weather_try(upstream) ==
    IF IsRaise(upstream) THEN upstream
    ELSE LET checked == raise_for_status(upstream)
         IN  IF IsRaise(checked) THEN checked
             ELSE LET weather_data == json(upstream[3])
                  IN  IF IsRaise(weather_data) THEN weather_data
                      ELSE LET present == PyIn("current_weather", weather_data[2])
                           IN  IF IsRaise(present) THEN present
                               ELSE IF present[2]
                                    THEN GetItem(weather_data[2], Str("current_weather"))
                                    ELSE Raise(HTTPException(500, "Invalid data format from weather API."))

(* The except clauses as if the last one put the exception text in the detail *)
get_weather_except_leaky(ctl) ==
    IF IsReturn(ctl) THEN [ctl |-> ctl, log |-> <<>>]
    ELSE IF ctl[2][1] = "HTTPStatusError"
         THEN [ctl |-> Raise(HTTPException(ctl[2][2], "Failed to fetch weather data: " \o ctl[2][3])),
               log |-> <<"Weather API Error: " \o ToString(ctl[2][2]) \o " - " \o ctl[2][3]>>]
         ELSE [ctl |-> Raise(HTTPException(500, "Internal server error: " \o ExcStr(ctl[2]))),
               log |-> <<"Server Error: " \o ExcStr(ctl[2])>>]

(* The except clauses of get_weather: what leaves the handler, and the log *)
get_weather_except(ctl) ==
    IF IsReturn(ctl) THEN [ctl |-> ctl, log |-> <<>>]
    ELSE LET e == ctl[2]
         IN  IF e[1] = "HTTPStatusError"
             THEN [ctl |-> Raise(HTTPException(e[2], "Failed to fetch weather data: " \o e[3])),
                   log |-> <<"Weather API Error: " \o ToString(e[2]) \o " - " \o e[3]>>]
             ELSE IF IsException(e)
                  THEN [ctl |-> Raise(HTTPException(500, "Internal server error while fetching weather.")),
                        log |-> <<"Server Error: " \o ExcStr(e)>>]
                  ELSE [ctl |-> ctl, log |-> <<>>]

-----------------------------------------------------------------------------
(* post_chat *)

api_url(api_key) ==
    "https://generativelanguage.googleapis.com/v1beta/models/gemini-2.5-flash-preview-09-2025:generateContent?key="
    \o api_key[2]

payload(prompt) ==
    Dict(<< <<"contents", List(<< Dict(<< <<"parts",
        List(<< Dict(<< <<"text", prompt>> >>) >>)>> >>) >>)>> >>)

(* prompt[:30] *)
Prefix30(s) == SubSeq(s, 1, IF Len(s) < 30 THEN Len(s) ELSE 30)

(* The path as if the second candidate were the one to read *)
TextPath_secondCandidate ==
    <<Str("candidates"), PyInt(1), Str("content"), Str("parts"), PyInt(0), Str("text")>>

TextPath ==
    <<Str("candidates"), PyInt(0), Str("content"), Str("parts"), PyInt(0), Str("text")>>

(* repr() of the decoded body, as the f-string prints it *)
RECURSIVE PyRepr(_)
RECURSIVE PyReprItems(_, _)
PyRepr(v) ==
    CASE TypeOf(v) = "NoneType" -> "None"
      [] TypeOf(v) = "str" -> "'" \o v[2] \o "'"
      [] TypeOf(v) = "int" -> ToString(v[2])
      [] TypeOf(v) = "float" -> v[2]
      [] TypeOf(v) = "list" -> "[" \o PyReprItems(v[2], FALSE) \o "]"
      [] TypeOf(v) = "dict" -> "{" \o PyReprItems(v[2], TRUE) \o "}"
PyReprItems(items, keyed) ==
    IF items = <<>> THEN ""
    ELSE (IF keyed THEN "'" \o Head(items)[1] \o "': " \o PyRepr(Head(items)[2])
                   ELSE PyRepr(Head(items)))
         \o (IF Tail(items) = <<>> THEN "" ELSE ", " \o PyReprItems(Tail(items), keyed))

(* The inner try/except of post_chat: extract the text or give up *)
post_chat_extract(result) ==
    LET text == GetPath(result, TextPath)
    IN  IF IsReturn(text)
        THEN [ctl |-> Return(Dict(<< <<"response", text[2]>> >>)), log |-> <<>>]
        ELSE IF text[2][1] \in {"KeyError", "IndexError", "TypeError"}
             THEN [ctl |-> Raise(HTTPException(500, "Received an invalid response from the LLM.")),
                   log |-> <<"Unexpected API response structure: " \o PyRepr(result)>>]
             ELSE [ctl |-> text, log |-> <<>>]

(* The outer try block of post_chat, resumed with what client.post came back with *)
post_chat_try(upstream) ==
    IF IsRaise(upstream) THEN [ctl |-> upstream, log |-> <<>>]
    ELSE LET checked == raise_for_status(upstream)
         IN  IF IsRaise(checked) THEN [ctl |-> checked, log |-> <<>>]
             ELSE LET result == json(upstream[3])
                  IN  IF IsRaise(result) THEN [ctl |-> result, log |-> <<>>]
                      ELSE post_chat_extract(result[2])

(* The outer except clauses of post_chat *)
post_chat_except(tried) ==
    IF IsReturn(tried.ctl) THEN tried
    ELSE LET e == tried.ctl[2]
         IN  IF e[1] = "HTTPStatusError"
             THEN [ctl |-> Raise(HTTPException(e[2], "Failed to get response from LLM: " \o e[3])),
                   log |-> tried.log \o <<"Gemini API Error: " \o ToString(e[2]) \o " - " \o e[3]>>]
             ELSE IF IsException(e)
                  THEN [ctl |-> Raise(HTTPException(500, "Internal server error while contacting LLM.")),
                        log |-> tried.log \o <<"Server Error: " \o ExcStr(e)>>]
                  ELSE tried

-----------------------------------------------------------------------------
(* State: the process environment and one record per request task *)

IdleTask ==
    [pc |-> "idle", handler |-> "", request |-> None, api_key |-> None,
     sent |-> <<>>, upstream |-> <<"pending">>, response |-> NoResponse,
     unhandled |-> FALSE, log |-> <<>>]

(* Values GEMINI_API_KEY can have when it is set *)
KeyValues == {"", "secret-key"}

Environs == {<<>>} \cup { [n \in {"GEMINI_API_KEY"} |-> k] : k \in KeyValues }

(* Raw query parameters of GET /api/weather; None is a missing parameter *)
LatValues == {None, Str("abc"), Str("47.6")}
LonValues == {None, Str("-122.3")}

(* JSON bodies of POST /api/chat *)
ChatBodies ==
    { Dict(<<>>),
      Dict(<< <<"prompt", Str("")>> >>),
      Dict(<< <<"prompt", Str("hello, this prompt is longer than thirty characters")>> >>) }

Init ==
    /\ environ \in Environs
    /\ task = [t \in Tasks |-> IdleTask]

(* Acceptance as if a handler waiting for its upstream held the server *)
CanAccept_blocking(t) ==
    /\ task[t].pc = "idle"
    /\ \A u \in Tasks : task[u].pc # "awaiting"

(* async def handlers: a task that has no request can take one, whatever   *)
(* the other tasks are waiting for                                         *)
CanAccept(t) == task[t].pc = "idle"

(* The environment is supplied from outside the handlers *)
SetEnviron(e) ==
    /\ environ' = e
    /\ environ' # environ
    /\ UNCHANGED task

(* GET /api/weather arrives: parameter validation, then get_weather up to  *)
(* the await of client.get                                                 *)
GetWeatherRequest(t, lat, lon) ==
    /\ CanAccept(t)
    /\ LET errors == QueryErrors(lat, lon)
           flat == ParseFloat(lat)[2]
           flon == ParseFloat(lon)[2]
       IN  task' = [task EXCEPT ![t] =
             IF errors # <<>>
             THEN [IdleTask EXCEPT !.pc = "done", !.handler = "get_weather",
                                   !.request = List(<<lat, lon>>),
                                   !.response = ValidationError(errors)]
             ELSE [IdleTask EXCEPT !.pc = "awaiting", !.handler = "get_weather",
                                   !.request = List(<<lat, lon>>),
                                   !.log = <<"Fetching weather for: " \o flat[2] \o ", " \o flon[2]>>,
                                   !.sent = <<<<"GET", weather_api_url(flat, flon), None>>>>]]
    /\ UNCHANGED environ

(* The resumption as if a failed call were tried once more *)
GetWeatherResume_retry(t, upstream) ==
    /\ task[t].pc = "awaiting"
    /\ task[t].handler = "get_weather"
    /\ LET done == get_weather_except(get_weather_try(upstream))
       IN  task' = [task EXCEPT ![t] =
             IF IsRaise(upstream) /\ Len(task[t].sent) < 2
             THEN [task[t] EXCEPT !.sent = @ \o <<@[1]>>]
             ELSE [task[t] EXCEPT !.pc = "done",
                                  !.upstream = upstream,
                                  !.response = Respond(done.ctl),
                                  !.unhandled = Unhandled(done.ctl),
                                  !.log = @ \o done.log]]
    /\ UNCHANGED environ

(* client.get comes back and get_weather runs to its end *)
GetWeatherResume(t, upstream) ==
    /\ task[t].pc = "awaiting"
    /\ task[t].handler = "get_weather"
    /\ LET done == get_weather_except(get_weather_try(upstream))
       IN  task' = [task EXCEPT ![t].pc = "done",
                                ![t].upstream = upstream,
                                ![t].response = Respond(done.ctl),
                                ![t].unhandled = Unhandled(done.ctl),
                                ![t].log = @ \o done.log]
    /\ UNCHANGED environ

(* POST /api/chat arrives: body validation, then post_chat up to the await *)
(* of client.post                                                          *)
PostChatRequest(t, body) ==
    /\ CanAccept(t)
    /\ LET api_key == os_environ_get("GEMINI_API_KEY")
           prompt == Lookup(body[2], "prompt")
       IN  task' = [task EXCEPT ![t] =
             IF ~ChatRequestValid(body)
             THEN [IdleTask EXCEPT !.pc = "done", !.handler = "post_chat",
                                   !.request = body,
                                   !.response = ValidationError(<<Str("prompt")>>)]
             ELSE IF ~Truthy(api_key)
             THEN [IdleTask EXCEPT !.pc = "done", !.handler = "post_chat",
                                   !.request = body, !.api_key = api_key,
                                   !.log = <<"GEMINI_API_KEY is not set.">>,
                                   !.response = Respond(Raise(HTTPException(500,
                                       "Server is missing API configuration.")))]
             ELSE [IdleTask EXCEPT !.pc = "awaiting", !.handler = "post_chat",
                                   !.request = body, !.api_key = api_key,
                                   !.log = <<"Sending prompt to LLM: \"" \o Prefix30(prompt[2]) \o "...\"">>,
                                   !.sent = <<<<"POST", api_url(api_key), payload(prompt)>>>>]]
    /\ UNCHANGED environ

(* client.post comes back and post_chat runs to its end *)
PostChatResume(t, upstream) ==
    /\ task[t].pc = "awaiting"
    /\ task[t].handler = "post_chat"
    /\ LET done == post_chat_except(post_chat_try(upstream))
       IN  task' = [task EXCEPT ![t].pc = "done",
                                ![t].upstream = upstream,
                                ![t].response = Respond(done.ctl),
                                ![t].unhandled = Unhandled(done.ctl),
                                ![t].log = @ \o done.log]
    /\ UNCHANGED environ

(* The response has gone out; the task and its locals are gone *)
Finish(t) ==
    /\ task[t].pc = "done"
    /\ task' = [task EXCEPT ![t] = IdleTask]
    /\ UNCHANGED environ

Next ==
    \/ \E e \in Environs : SetEnviron(e)
    \/ \E t \in Tasks, lat \in LatValues, lon \in LonValues : GetWeatherRequest(t, lat, lon)
    \/ \E t \in Tasks, u \in WeatherResponses \cup TransportFailures : GetWeatherResume(t, u)
    \/ \E t \in Tasks, body \in ChatBodies : PostChatRequest(t, body)
    \/ \E t \in Tasks, u \in ChatResponses \cup TransportFailures : PostChatResume(t, u)
    \/ \E t \in Tasks : Finish(t)

Spec == Init /\ [][Next]_vars

TypeOK ==
    /\ environ \in Environs
    /\ \A t \in Tasks : task[t].pc \in {"idle", "awaiting", "done"}

-----------------------------------------------------------------------------
(* Vocabulary of the properties, stated on the observable parts of a task: *)
(* the request, what the upstream sent, and the client response.           *)

IsWeather(t) == task[t].handler = "get_weather"
IsChat(t) == task[t].handler = "post_chat"
Done(t) == task[t].pc = "done"

NumericRaw == {Str("47.6"), Str("-122.3"), Str("10")}
ValidCoordinates(t) ==
    /\ task[t].request[2][1] \in NumericRaw
    /\ task[t].request[2][2] \in NumericRaw

HasPrompt(t) ==
    /\ \E i \in 1..Len(task[t].request[2]) : task[t].request[2][i][1] = "prompt"

PromptOf(t) == Lookup(task[t].request[2], "prompt")

(* The upstream answered with a 2xx status *)
UpstreamSuccess(t) ==
    /\ task[t].upstream[1] = "response"
    /\ task[t].upstream[2] >= 200
    /\ task[t].upstream[2] < 300

(* The upstream answered with a status outside 2xx *)
UpstreamNonSuccess(t) ==
    /\ task[t].upstream[1] = "response"
    /\ (task[t].upstream[2] < 200 \/ task[t].upstream[2] >= 300)

UpstreamTransportFailure(t) == task[t].upstream[1] = "raise"

Decodable(t) == json(task[t].upstream[3])[1] = "return"
Decoded(t) == json(task[t].upstream[3])[2]

IsDictWith(v, k) == v[1] = "dict" /\ \E i \in 1..Len(v[2]) : v[2][i][1] = k
IsNonEmptyList(v) == v[1] = "list" /\ Len(v[2]) >= 1
Field(v, k) == v[2][CHOOSE i \in 1..Len(v[2]) : v[2][i][1] = k][2]

(* v has the shape candidates[0].content.parts[0].text *)
HasTextShape(v) ==
    /\ IsDictWith(v, "candidates")
    /\ IsNonEmptyList(Field(v, "candidates"))
    /\ IsDictWith(Field(v, "candidates")[2][1], "content")
    /\ IsDictWith(Field(Field(v, "candidates")[2][1], "content"), "parts")
    /\ IsNonEmptyList(Field(Field(Field(v, "candidates")[2][1], "content"), "parts"))
    /\ IsDictWith(Field(Field(Field(v, "candidates")[2][1], "content"), "parts")[2][1], "text")

FirstText(v) ==
    Field(Field(Field(Field(v, "candidates")[2][1], "content"), "parts")[2][1], "text")

StatusOf(t) == task[t].response[1]
BodyOf(t) == task[t].response[2]
IsErrorBody(t) == IsDictWith(BodyOf(t), "detail") /\ Field(BodyOf(t), "detail")[1] = "str"
DetailOf(t) == Field(BodyOf(t), "detail")[2]

WeatherGeneric == "Internal server error while fetching weather."
ChatGeneric == "Internal server error while contacting LLM."
Misconfigured == "Server is missing API configuration."

-----------------------------------------------------------------------------
(* C1: get_weather with numeric lat and lon, a 2xx upstream status and a   *)
(* JSON object body that has the key current_weather answers 200 with a    *)
(* body equal to the value of current_weather, nothing added or removed.   *)
C1_WeatherPassThrough ==
    \A t \in Tasks :
        (/\ IsWeather(t) /\ Done(t) /\ ValidCoordinates(t)
         /\ UpstreamSuccess(t) /\ Decodable(t)
         /\ IsDictWith(Decoded(t), "current_weather"))
        => task[t].response = <<200, Field(Decoded(t), "current_weather")>>

(* A weather request answered from a body that has other keys next to      *)
(* current_weather.                                                        *)
C1_Witness ==
    \E t \in Tasks :
        /\ IsWeather(t) /\ Done(t) /\ ValidCoordinates(t)
        /\ task[t].upstream = Response(200,
               "{\"latitude\": 47.6, \"current_weather\": {\"time\": \"2025-01-01T00:00\"}}")
        /\ StatusOf(t) = 200
        /\ BodyOf(t) = Dict(<< <<"time", Str("2025-01-01T00:00")>> >>)

(* C2: post_chat with a prompt, a configured credential, a 2xx upstream    *)
(* status and a body of the shape candidates[0].content.parts[0].text      *)
(* answers 200 with {"response": t}, t the text of the first part of the   *)
(* first candidate; any prompt, the empty one included, is sent upstream   *)
(* unchanged as the sole content part.                                     *)
C2_ChatFirstText ==
    \A t \in Tasks :
        /\ (/\ IsChat(t) /\ Done(t) /\ HasPrompt(t)
            /\ UpstreamSuccess(t) /\ Decodable(t) /\ HasTextShape(Decoded(t)))
           => task[t].response = <<200, Dict(<< <<"response", FirstText(Decoded(t))>> >>)>>
        /\ (IsChat(t) /\ task[t].sent # <<>>)
           => /\ HasPrompt(t)
              /\ task[t].sent[1][1] = "POST"
              /\ task[t].sent[1][3] =
                    Dict(<< <<"contents", List(<< Dict(<< <<"parts",
                        List(<< Dict(<< <<"text", PromptOf(t)>> >>) >>)>> >>) >>)>> >>)

(* An empty prompt was forwarded and answered from a body with several     *)
(* candidates and parts.                                                   *)
C2_Witness ==
    \E t \in Tasks :
        /\ IsChat(t) /\ Done(t) /\ HasPrompt(t) /\ PromptOf(t) = Str("")
        /\ Len(task[t].sent) = 1
        /\ UpstreamSuccess(t) /\ Decodable(t) /\ HasTextShape(Decoded(t))
        /\ Len(Field(Decoded(t), "candidates")[2]) = 2
        /\ task[t].response = <<200, Dict(<< <<"response", Str("first")>> >>)>>

(* C3: in both handlers an upstream response with a status outside 2xx     *)
(* gives a client response with that same status and a detail text that    *)
(* contains the upstream body text; it is not the generic transport 500.   *)
C3_UpstreamErrorMirrored ==
    \A t \in Tasks :
        (Done(t) /\ UpstreamNonSuccess(t))
        => /\ StatusOf(t) = task[t].upstream[2]
           /\ IsErrorBody(t)
           /\ IsSubstring(task[t].upstream[3], DetailOf(t))
           /\ DetailOf(t) \notin {WeatherGeneric, ChatGeneric}

(* Both handlers have mirrored an upstream error, one of them a redirect   *)
(* and one a 429 with body text.                                           *)
C3_Witness ==
    /\ \E t \in Tasks :
        /\ IsWeather(t) /\ Done(t) /\ task[t].upstream = Response(301, "")
        /\ StatusOf(t) = 301
    /\ \E t \in Tasks :
        /\ IsChat(t) /\ Done(t) /\ task[t].upstream = Response(429, "rate limited")
        /\ StatusOf(t) = 429
        /\ DetailOf(t) = "Failed to get response from LLM: rate limited"

(* C4: a weather request whose lat or lon is missing or not a number is    *)
(* answered with a 4xx and never has an outbound call.                     *)
C4_InvalidCoordinatesNoCall ==
    \A t \in Tasks :
        (IsWeather(t) /\ ~ValidCoordinates(t))
        => /\ Done(t)
           /\ StatusOf(t) \in 400..499
           /\ task[t].sent = <<>>
           /\ task[t].upstream = <<"pending">>

(* One request with a non-numeric lat and one with a missing lon, both     *)
(* rejected.                                                               *)
C4_Witness ==
    /\ \E t \in Tasks :
        /\ IsWeather(t) /\ task[t].request = List(<<Str("abc"), Str("-122.3")>>)
        /\ StatusOf(t) = 422 /\ task[t].sent = <<>>
    /\ \E t \in Tasks :
        /\ IsWeather(t) /\ task[t].request = List(<<Str("47.6"), None>>)
        /\ StatusOf(t) = 422 /\ task[t].sent = <<>>

NoCredential == "GEMINI_API_KEY" \notin DOMAIN environ \/ environ["GEMINI_API_KEY"] = ""

(* C5: a chat request entering post_chat while no credential is configured *)
(* is answered 500 with the fixed misconfiguration message and has no      *)
(* outbound call; the credential is read at every request, so a request    *)
(* arriving while one is configured goes out with that credential,         *)
(* whatever earlier requests met.                                          *)
C5_CredentialCheckedEachRequest ==
    [][\A t \in Tasks :
        (/\ task[t].pc = "idle" /\ task'[t].handler = "post_chat"
         /\ IsDictWith(task'[t].request, "prompt"))
        => IF NoCredential
           THEN /\ task'[t].pc = "done"
                /\ task'[t].response = <<500, Dict(<< <<"detail", Str(Misconfigured)>> >>)>>
                /\ task'[t].sent = <<>>
           ELSE /\ task'[t].pc = "awaiting"
                /\ task'[t].api_key = Str(environ["GEMINI_API_KEY"])
                /\ Len(task'[t].sent) = 1
                /\ task'[t].sent[1][2] = api_url(Str(environ["GEMINI_API_KEY"]))
      ]_vars

(* A chat request refused for the missing credential while another chat    *)
(* request, accepted earlier under a configured credential, is in flight.  *)
C5_Witness ==
    \E t, u \in Tasks :
        /\ IsChat(t) /\ Done(t) /\ HasPrompt(t)
        /\ task[t].response = <<500, Dict(<< <<"detail", Str(Misconfigured)>> >>)>>
        /\ task[t].sent = <<>>
        /\ IsChat(u) /\ task[u].pc = "awaiting" /\ task[u].api_key = Str("secret-key")
        /\ NoCredential

(* The success body lacks a level of candidates[0].content.parts[0].text   *)
ChatMalformed(t) ==
    /\ IsChat(t) /\ Done(t) /\ UpstreamSuccess(t) /\ Decodable(t)
    /\ ~HasTextShape(Decoded(t))

(* The success body is JSON without current_weather *)
WeatherMalformed(t) ==
    /\ IsWeather(t) /\ Done(t) /\ UpstreamSuccess(t) /\ Decodable(t)
    /\ Decoded(t)[1] = "dict"
    /\ ~IsDictWith(Decoded(t), "current_weather")

(* C6: a 2xx upstream body of unexpected shape gives a 500 whose detail is *)
(* the handler's own malformed-response text: "Invalid data format from    *)
(* weather API." for get_weather, "Received an invalid response from the   *)
(* LLM." for post_chat; it is not the transport-failure text.              *)
C6_MalformedFixedDetail ==
    \A t \in Tasks :
        /\ WeatherMalformed(t)
           => task[t].response =
                <<500, Dict(<< <<"detail", Str("Invalid data format from weather API.")>> >>)>>
        /\ ChatMalformed(t)
           => task[t].response =
                <<500, Dict(<< <<"detail", Str("Received an invalid response from the LLM.")>> >>)>>

(* C7: a body missing the expected nested fields gives a 500 with a fixed  *)
(* message; a 200 of post_chat carries a "response" that is a str, the     *)
(* text at candidates[0].content.parts[0].text, and a 200 of get_weather   *)
(* carries the current_weather value the upstream sent.                    *)
C7_NoPartialValue ==
    \A t \in Tasks :
        /\ (WeatherMalformed(t) \/ ChatMalformed(t))
           => /\ StatusOf(t) = 500
              /\ IsErrorBody(t)
              /\ DetailOf(t) \in {WeatherGeneric, ChatGeneric,
                                  "Invalid data format from weather API.",
                                  "Received an invalid response from the LLM."}
        /\ (IsChat(t) /\ Done(t) /\ StatusOf(t) = 200)
           => /\ UpstreamSuccess(t) /\ Decodable(t) /\ HasTextShape(Decoded(t))
              /\ FirstText(Decoded(t))[1] = "str"
              /\ BodyOf(t) = Dict(<< <<"response", FirstText(Decoded(t))>> >>)
        /\ (IsWeather(t) /\ Done(t) /\ StatusOf(t) = 200)
           => /\ UpstreamSuccess(t) /\ Decodable(t)
              /\ IsDictWith(Decoded(t), "current_weather")
              /\ BodyOf(t) = Field(Decoded(t), "current_weather")

(* What the failed call or the failed decoding said *)
FailureText(t) ==
    IF UpstreamTransportFailure(t) THEN task[t].upstream[2][2]
    ELSE json(task[t].upstream[3])[2][2]

TransportOrDecodeFailure(t) ==
    /\ Done(t)
    /\ \/ UpstreamTransportFailure(t)
       \/ UpstreamSuccess(t) /\ ~Decodable(t)

(* C8: in both handlers a transport failure, or a 2xx body that is not     *)
(* JSON, gives a 500 whose detail is the handler's one generic text; the   *)
(* failure's own text is in the log and not in the response, and no        *)
(* exception escapes the handler.                                          *)
C8_TransportFailureGeneric ==
    \A t \in Tasks :
        TransportOrDecodeFailure(t)
        => /\ task[t].response =
                <<500, Dict(<< <<"detail", Str(IF IsWeather(t) THEN WeatherGeneric ELSE ChatGeneric)>> >>)>>
           /\ ~task[t].unhandled
           /\ ~IsSubstring(FailureText(t), DetailOf(t))
           /\ \E i \in 1..Len(task[t].log) : IsSubstring(FailureText(t), task[t].log[i])

(* One handler met a refused connection, the other a 2xx body that is not  *)
(* JSON.                                                                   *)
C8_Witness ==
    /\ \E t \in Tasks :
        /\ IsWeather(t) /\ Done(t)
        /\ task[t].upstream = Raise(<<"ConnectError", "[Errno 111] Connection refused">>)
        /\ StatusOf(t) = 500
    /\ \E t \in Tasks :
        /\ IsChat(t) /\ Done(t)
        /\ task[t].upstream = Response(200, "<html>gateway</html>")
        /\ StatusOf(t) = 500

(* C9: a request has at most one outbound call, whatever came back; once   *)
(* an outcome is there the response is there too, made from that one call. *)
C9_SingleAttempt ==
    \A t \in Tasks :
        /\ Len(task[t].sent) <= 1
        /\ task[t].pc = "awaiting" => Len(task[t].sent) = 1
        /\ task[t].upstream # <<"pending">>
           => /\ Done(t)
              /\ Len(task[t].sent) = 1
              /\ StatusOf(t) # 0

(* A request answered after its one call timed out. *)
C9_Witness ==
    \E t \in Tasks :
        /\ Done(t)
        /\ task[t].upstream = Raise(<<"ReadTimeout", "The read operation timed out">>)
        /\ Len(task[t].sent) = 1
        /\ StatusOf(t) = 500

(* C10: while one request waits for its upstream, any other task can take  *)
(* a request of either kind, and a second waiting request can get its      *)
(* upstream's answer; and two answered requests with the same input, the   *)
(* same credential and the same upstream outcome have the same response,   *)
(* whatever else went on.                                                  *)
C10_IndependentRequests ==
    \A t, u \in Tasks :
        (t # u) =>
          /\ (task[t].pc = "awaiting" /\ task[u].pc = "idle")
             => /\ ENABLED GetWeatherRequest(u, Str("47.6"), Str("-122.3"))
                /\ ENABLED PostChatRequest(u, Dict(<< <<"prompt", Str("")>> >>))
          /\ (task[t].pc = "awaiting" /\ task[u].pc = "awaiting")
             => \/ ENABLED GetWeatherResume(u, Response(429, "rate limited"))
                \/ ENABLED PostChatResume(u, Response(429, "rate limited"))
          /\ (/\ Done(t) /\ Done(u)
              /\ task[t].handler = task[u].handler
              /\ task[t].request = task[u].request
              /\ task[t].api_key = task[u].api_key
              /\ task[t].upstream = task[u].upstream)
             => task[t].response = task[u].response

(* One request is still waiting for its upstream while another, accepted   *)
(* after it, has made its own call and been answered.                      *)
C10_Witness ==
    \E t, u \in Tasks :
        /\ t # u
        /\ task[t].pc = "awaiting"
        /\ Done(u) /\ Len(task[u].sent) = 1 /\ StatusOf(u) = 200

====
